---- MODULE Spec2Model ----
(***************************************************************************)
(* Model of dataset_anonymization.py: the Lending Club anonymization,      *)
(* stratified sampling and pipeline orchestration.                         *)
(*                                                                         *)
(* A table (pandas DataFrame) is a record [columns, rows]: the set of      *)
(* column names and the sequence of rows, each row a function from the     *)
(* column names to cell values.  A cell of issue_d is a record tagged by   *)
(* its dtype: [dtype |-> "object", text |-> s] for the text read from the  *)
(* CSV file, [dtype |-> "datetime64", year, month, day] once parsed, and   *)
(* [dtype |-> "NaT"] for a parsed missing value.                           *)
(***************************************************************************)
EXTENDS Integers, Sequences, FiniteSets, TLC

VARIABLES
    pc,            \* where the caller / the orchestrator is
    df,            \* the raw table (the caller's object)
    df_before,     \* history: df as it was when anonymize_and_filter_data was called
    df_filtered,   \* the filtered table (the object passed to the sampler)
    sample_in,     \* history: df_filtered as it was when the sampler was last called
    df_sample,     \* the sample last returned
    exc,           \* the exception caught by the orchestrator's except clause
    error,         \* the exception the caller receives ("" when none)
    result,        \* what the orchestrator returns to its caller
    target_size,   \* target_size / target_sample_size
    random_state,  \* the seed argument
    np_random,     \* state of numpy's global generator (ambient, not an argument)
    samples,       \* history: the outcome of every sampler call so far
    steps,         \* history: the orchestrator's steps started so far
    locals         \* the orchestrator's main_file, file_info and temporal_analysis

vars == <<pc, df, df_before, df_filtered, sample_in, df_sample, exc, error, result,
          target_size, random_state, np_random, samples, steps, locals>>

(***************************************************************************)
(* Bounds of the model.                                                    *)
(***************************************************************************)
MaxRows == 3
MaxSampleRows == 4
MaxTarget == 4
MaxCalls == 2
MaxGlobalRng == 1

(***************************************************************************)
(* Generic table helpers (pandas operations used by the module).           *)
(***************************************************************************)
NoTable == [columns |-> {}, rows |-> <<>>]

NoError == ""

NoComparison == [original |-> {}, sample |-> {}]

NoInfo == [original_shape |-> <<0, 0>>, filtered_shape |-> <<0, 0>>,
           sample_shape |-> <<0, 0>>, file_info |-> [records |-> 0],
           temporal_analysis |-> NoComparison]

NoLocals == [main_file |-> "", file_info |-> [records |-> 0],
             temporal_analysis |-> NoComparison]

NoResult == [returned |-> FALSE, sample |-> NoTable, process_info |-> NoInfo]

RECURSIVE SeqFilter(_, _)
SeqFilter(s, keep) ==
    IF s = <<>> THEN <<>>
    ELSE IF Head(s) \in keep THEN <<Head(s)>> \o SeqFilter(Tail(s), keep)
         ELSE SeqFilter(Tail(s), keep)

\* df[mask]: the rows whose position is in the mask, in their order
boolean_index(t, mask) ==
    [columns |-> t.columns,
     rows |-> LET pos == SeqFilter([i \in 1..Len(t.rows) |-> i], mask)
              IN [k \in 1..Len(pos) |-> t.rows[pos[k]]]]

\* df[col] = values: sets (or adds) a column; values has one value per row
set_column(t, col, values) ==
    [columns |-> t.columns \cup {col},
     rows |-> [i \in 1..Len(t.rows) |->
                 [c \in t.columns \cup {col} |->
                     IF c = col THEN values[i] ELSE t.rows[i][c]]]]

\* df.drop(columns=cols): KeyError when a named column is not in the table
drop(t, cols) ==
    IF ~(cols \subseteq t.columns)
    THEN [error |-> "KeyError", table |-> NoTable]
    ELSE [error |-> NoError,
          table |-> [columns |-> t.columns \ cols,
                     rows |-> [i \in 1..Len(t.rows) |->
                                 [c \in t.columns \ cols |-> t.rows[i][c]]]]]

(***************************************************************************)
(* Dates: pd.to_datetime and the comparison with the window bounds.        *)
(***************************************************************************)
NaT == [dtype |-> "NaT"]

Timestamp(y, m, d) == [dtype |-> "datetime64", year |-> y, month |-> m, day |-> d]

NaNText == "NaN"

\* the date texts of the model and what the parser makes of each
strptime(text) ==
    CASE text = "2014-12-31" -> Timestamp(2014, 12, 31)
      [] text = "2015-01-01" -> Timestamp(2015, 1, 1)
      [] text = "Jun-2017"   -> Timestamp(2017, 6, 1)
      [] text = "2020-12-31" -> Timestamp(2020, 12, 31)
      [] text = "2021-01-01" -> Timestamp(2021, 1, 1)
      [] OTHER               -> NaT

to_datetime(v) ==
    IF v.dtype = "object" THEN strptime(v.text) ELSE v

\* a >= b on timestamps; any comparison with NaT is False
ts_ge(a, b) ==
    /\ a.dtype = "datetime64"
    /\ b.dtype = "datetime64"
    /\ \/ a.year > b.year
       \/ a.year = b.year /\ a.month > b.month
       \/ a.year = b.year /\ a.month = b.month /\ a.day >= b.day

ts_le(a, b) ==
    /\ a.dtype = "datetime64"
    /\ b.dtype = "datetime64"
    /\ \/ a.year < b.year
       \/ a.year = b.year /\ a.month < b.month
       \/ a.year = b.year /\ a.month = b.month /\ a.day <= b.day

in_period_open(d) ==
    ts_ge(d, strptime("2015-01-01"))

in_period(d) ==
    ts_ge(d, strptime("2015-01-01")) /\ ts_le(d, strptime("2020-12-31"))

(***************************************************************************)
(* anonymize_and_filter_data                                               *)
(***************************************************************************)
paid_status == {"Fully Paid", "Does not meet the credit policy. Status:Fully Paid"}

default_status == {"Charged Off", "Default", "Late (31-120 days)", "In Grace Period",
                   "Does not meet the credit policy. Status:Charged Off",
                   "Late (16-30 days)"}

future_leak_cols == {"last_pymnt_d", "total_pymnt", "recoveries", "collection_recovery_fee",
                     "last_credit_pull_d", "out_prncp", "out_prncp_inv", "total_pymnt_inv",
                     "total_rec_prncp", "total_rec_int", "total_rec_late_fee", "hardship_flag",
                     "settlement_status", "settlement_date", "settlement_amount",
                     "debt_settlement_flag"}

privacy_cols == {"member_id", "emp_title", "url", "desc", "title"}

target_default_inverted(status) == IF status \in paid_status THEN 1 ELSE 0

target_default_of(status) == IF status \in default_status THEN 1 ELSE 0

existing_cols_unchecked(cols, t) == cols

\* [col for col in cols if col in df_filtered.columns]
existing_cols(cols, t) == {col \in cols : col \in t.columns}

\* df['issue_d'] = pd.to_datetime(df['issue_d']): assigns into the caller's table
parse_issue_d(t) ==
    set_column(t, "issue_d", [i \in 1..Len(t.rows) |-> to_datetime(t.rows[i]["issue_d"])])

\* the index of target_default.value_counts(normalize=True): the labels that occur
value_counts_index(t) == {t.rows[i]["target_default"] : i \in 1..Len(t.rows)}

\* the whole function: the caller's table after the call, the returned table,
\* and the exception raised ("" when it returns)
anonymize_and_filter_data(t) ==
    LET t1 == parse_issue_d(t)
        m1 == {i \in 1..Len(t1.rows) : in_period(t1.rows[i]["issue_d"])}
        f1 == boolean_index(t1, m1)
        m2 == {i \in 1..Len(f1.rows) :
                  f1.rows[i]["loan_status"] \in paid_status \cup default_status}
        f2 == boolean_index(f1, m2)
        f3 == set_column(f2, "target_default",
                         [i \in 1..Len(f2.rows) |->
                             target_default_of(f2.rows[i]["loan_status"])])
        target_dist == value_counts_index(f3)
        d1 == drop(f3, existing_cols(future_leak_cols, f3))
        d2 == drop(d1.table, existing_cols(privacy_cols, d1.table))
    IN  IF ~({0, 1} \subseteq target_dist)
        THEN [df |-> t1, ret |-> NoTable, error |-> "KeyError"]
        ELSE IF d1.error # NoError
        THEN [df |-> t1, ret |-> NoTable, error |-> d1.error]
        ELSE IF d2.error # NoError
        THEN [df |-> t1, ret |-> NoTable, error |-> d2.error]
        ELSE [df |-> t1, ret |-> d2.table, error |-> NoError]

(***************************************************************************)
(* Input tables: the raw table as read from the CSV file.                  *)
(***************************************************************************)
BaseCols == {"id", "issue_d", "loan_status", "loan_amnt"}

DateTexts == {"2014-12-31", "2015-01-01", "Jun-2017", "2020-12-31", "2021-01-01", NaNText}

StatusValues == paid_status \cup default_status \cup {"Current", "NaN"}

\* every date with a paid status, every status with a date inside the window,
\* and a default status on the window's edges
RowValues == (DateTexts \X {"Fully Paid"})
             \cup ({"Jun-2017"} \X StatusValues)
             \cup ({"2015-01-01", "2021-01-01"} \X {"Charged Off"})

\* none, all, one, and all but one of the columns the function drops
ColumnChoices == {BaseCols,
                  BaseCols \cup future_leak_cols \cup privacy_cols,
                  BaseCols \cup {"recoveries", "url"},
                  BaseCols \cup (future_leak_cols \ {"debt_settlement_flag"})
                           \cup (privacy_cols \ {"title"})}

RawCell(c, i, v) ==
    CASE c = "id"          -> i
      [] c = "issue_d"     -> [dtype |-> "object", text |-> v[1]]
      [] c = "loan_status" -> v[2]
      [] OTHER             -> 0

RawTable(cols, vals) ==
    [columns |-> cols,
     rows |-> [i \in 1..Len(vals) |-> [c \in cols |-> RawCell(c, i, vals[i])]]]

RowSeqs(n) == UNION {[1..k -> RowValues] : k \in 0..n}

RawTables(n) == {RawTable(cols, vals) : cols \in ColumnChoices, vals \in RowSeqs(n)}

(***************************************************************************)
(* Specification SpecAnon: one call of anonymize_and_filter_data on an     *)
(* arbitrary raw table.                                                    *)
(***************************************************************************)
InitAnon ==
    /\ pc = "call"
    /\ df \in RawTables(MaxRows)
    /\ df_before = df
    /\ df_filtered = NoTable
    /\ sample_in = NoTable
    /\ df_sample = NoTable
    /\ exc = NoError
    /\ error = NoError
    /\ result = NoResult
    /\ target_size = 0
    /\ random_state = 42
    /\ np_random = 0
    /\ samples = <<>>
    /\ steps = <<>>
    /\ locals = NoLocals

AnonReturn ==
    /\ pc = "call"
    /\ LET res == anonymize_and_filter_data(df)
       IN /\ res.error = NoError
          /\ df' = res.df
          /\ df_filtered' = res.ret
          /\ error' = NoError
          /\ pc' = "returned"
    /\ UNCHANGED <<df_before, sample_in, df_sample, exc, result, target_size,
                   random_state, np_random, samples, steps, locals>>

AnonRaise ==
    /\ pc = "call"
    /\ LET res == anonymize_and_filter_data(df)
       IN /\ res.error # NoError
          /\ df' = res.df
          /\ df_filtered' = NoTable
          /\ error' = res.error
          /\ pc' = "raised"
    /\ UNCHANGED <<df_before, sample_in, df_sample, exc, result, target_size,
                   random_state, np_random, samples, steps, locals>>

NextAnon == AnonReturn \/ AnonRaise

SpecAnon == InitAnon /\ [][NextAnon]_vars

(***************************************************************************)
(* create_stratified_sample                                                *)
(***************************************************************************)
\* df['ano'] = df['issue_d'].dt.year
add_ano(t) ==
    set_column(t, "ano", [i \in 1..Len(t.rows) |-> t.rows[i]["issue_d"].year])

\* df['strata'] = ano + '_' + target_default: the key "2017_1" is the pair
\* <<2017, 1>> (the join of two integers by '_' is one-to-one)
add_strata(t) ==
    set_column(t, "strata",
               [i \in 1..Len(t.rows) |-> <<t.rows[i]["ano"], t.rows[i]["target_default"]>>])

RECURSIVE unique(_)
\* the distinct values of a sequence in order of first appearance
unique(s) ==
    IF s = <<>> THEN <<>>
    ELSE LET rest == unique(SubSeq(s, 1, Len(s) - 1))
         IN IF \E k \in 1..Len(rest) : rest[k] = s[Len(s)]
            THEN rest ELSE Append(rest, s[Len(s)])

count_of(t, key) == Cardinality({i \in 1..Len(t.rows) : t.rows[i]["strata"] = key})

RECURSIVE sort_desc(_)
\* sort_values(ascending=False) of [key, count] pairs; equal counts keep
\* their order
sort_desc(s) ==
    IF s = <<>> THEN <<>>
    ELSE LET top == CHOOSE k \in 1..Len(s) :
                       /\ \A j \in 1..Len(s) : s[j].count <= s[k].count
                       /\ \A j \in 1..(k - 1) : s[j].count < s[k].count
         IN <<s[top]>> \o sort_desc(SubSeq(s, 1, top - 1) \o SubSeq(s, top + 1, Len(s)))

\* df['strata'].value_counts(): the strata with their counts, largest first
value_counts(t) ==
    LET keys == unique([i \in 1..Len(t.rows) |-> t.rows[i]["strata"]])
    IN sort_desc([k \in 1..Len(keys) |-> [key |-> keys[k], count |-> count_of(t, keys[k])]])

proportional_size_ceil(size, count, total) ==
    (size * count + total - 1) \div total

\* int(target_size * prop) with prop = count / len(df): for the sizes of the
\* model the float product truncates to the exact quotient
proportional_size(size, count, total) ==
    (size * count) \div total

at_least_one_missing(sample_size, count) == sample_size

\* if sample_size == 0 and strata_counts[strata] > 0: sample_size = 1
at_least_one(sample_size, count) ==
    IF sample_size = 0 /\ count > 0 THEN 1 ELSE sample_size

min(a, b) == IF a <= b THEN a ELSE b

\* sample_sizes[strata]
stratum_sample_size(size, count, total) ==
    min(at_least_one(proportional_size(size, count, total), count), count)

check_random_state_global(seed, global) == global

\* sample(random_state=seed) builds a fresh generator from the seed; numpy's
\* global generator is used only when no seed is given
check_random_state(seed, global) == seed

\* one step of the generator (a small congruential stand-in for numpy's)
rng_next(x) == (5 * x + 3) % 16

RECURSIVE permutation(_, _)
\* the generator's permutation of a sequence
permutation(items, x) ==
    IF items = <<>> THEN <<>>
    ELSE LET j == (x % Len(items)) + 1
         IN <<items[j]>> \o
            permutation(SubSeq(items, 1, j - 1) \o SubSeq(items, j + 1, Len(items)),
                        rng_next(x))

\* strata_data.sample(n=n, random_state=...): n rows without replacement
sample(rows, n, x) == SubSeq(permutation(rows, x), 1, n)

\* df[df['strata'] == key]
strata_data(t, key) ==
    boolean_index(t, {i \in 1..Len(t.rows) : t.rows[i]["strata"] = key}).rows

RECURSIVE concat(_)
\* pd.concat(dfs, ignore_index=True) on the row sequences
concat(dfs) == IF dfs = <<>> THEN <<>> ELSE Head(dfs) \o concat(Tail(dfs))

aux_columns_none == {}

\* df_sample.drop(['strata'], axis=1)
aux_columns == {"strata"}

\* the whole function: the caller's table after the call, the returned sample,
\* and the exception raised ("" when it returns)
create_stratified_sample(t, size, seed, global) ==
    LET t2 == add_strata(add_ano(t))
        total == Len(t2.rows)
        strata_counts == value_counts(t2)
        sample_sizes == [k \in 1..Len(strata_counts) |->
                            stratum_sample_size(size, strata_counts[k].count, total)]
        drawn == SeqFilter([k \in 1..Len(strata_counts) |-> k],
                           {k \in 1..Len(strata_counts) : sample_sizes[k] > 0})
        dfs_sample == [d \in 1..Len(drawn) |->
                          LET data == strata_data(t2, strata_counts[drawn[d]].key)
                          IN IF Len(data) >= sample_sizes[drawn[d]]
                             THEN sample(data, sample_sizes[drawn[d]],
                                         check_random_state(seed, global))
                             ELSE data]
        dropped == drop([columns |-> t2.columns, rows |-> concat(dfs_sample)],
                        aux_columns)
    IN  IF dfs_sample = <<>>
        THEN [df |-> t2, ret |-> NoTable, error |-> "ValueError"]
        ELSE IF dropped.error # NoError
        THEN [df |-> t2, ret |-> NoTable, error |-> dropped.error]
        ELSE [df |-> t2, ret |-> dropped.table, error |-> NoError]

(***************************************************************************)
(* Filtered tables: what anonymize_and_filter_data can hand to the         *)
(* sampler (dates parsed and inside the window, a status of the two sets,  *)
(* the label set accordingly, no leakage or privacy column).               *)
(***************************************************************************)
Seeds == {42, 7}

FilteredRowValues == {"2015-01-01", "2020-12-31"} \X {"Fully Paid", "Charged Off"}

FilteredCell(c, i, v) ==
    CASE c = "id"             -> i
      [] c = "issue_d"        -> strptime(v[1])
      [] c = "loan_status"    -> v[2]
      [] c = "target_default" -> target_default_of(v[2])
      [] OTHER                -> 0

FilteredTable(vals) ==
    [columns |-> BaseCols \cup {"target_default"},
     rows |-> [i \in 1..Len(vals) |->
                 [c \in BaseCols \cup {"target_default"} |-> FilteredCell(c, i, vals[i])]]]

FilteredTables(n) ==
    {FilteredTable(vals) : vals \in UNION {[1..k -> FilteredRowValues] : k \in 0..n}}

(***************************************************************************)
(* Specification SpecSample: calls of create_stratified_sample with the    *)
(* same table object, target_size and seed, while other code may draw from *)
(* numpy's global generator in between.                                    *)
(***************************************************************************)
InitSample ==
    /\ pc = "call"
    /\ df = NoTable
    /\ df_before = NoTable
    /\ df_filtered \in FilteredTables(MaxSampleRows)
    /\ sample_in = NoTable
    /\ df_sample = NoTable
    /\ exc = NoError
    /\ error = NoError
    /\ result = NoResult
    /\ target_size \in 0..MaxTarget
    /\ random_state \in Seeds
    /\ np_random = 0
    /\ samples = <<>>
    /\ steps = <<>>
    /\ locals = NoLocals

SampleReturn ==
    /\ Len(samples) < MaxCalls
    /\ LET res == create_stratified_sample(df_filtered, target_size, random_state, np_random)
       IN /\ res.error = NoError
          /\ sample_in' = df_filtered
          /\ df_filtered' = res.df
          /\ df_sample' = res.ret
          /\ error' = NoError
          /\ samples' = Append(samples, [error |-> NoError, table |-> res.ret])
          /\ pc' = "returned"
    /\ UNCHANGED <<df, df_before, exc, result, target_size, random_state, np_random, steps, locals>>

SampleRaise ==
    /\ Len(samples) < MaxCalls
    /\ LET res == create_stratified_sample(df_filtered, target_size, random_state, np_random)
       IN /\ res.error # NoError
          /\ sample_in' = df_filtered
          /\ df_filtered' = res.df
          /\ df_sample' = NoTable
          /\ error' = res.error
          /\ samples' = Append(samples, [error |-> res.error, table |-> NoTable])
          /\ pc' = "raised"
    /\ UNCHANGED <<df, df_before, exc, result, target_size, random_state, np_random, steps, locals>>

\* other code of the process draws from numpy's global generator
GlobalRngDraw ==
    /\ np_random < MaxGlobalRng
    /\ np_random' = np_random + 1
    /\ UNCHANGED <<pc, df, df_before, df_filtered, sample_in, df_sample, exc, error,
                   result, target_size, random_state, samples, steps, locals>>

NextSample == SampleReturn \/ SampleRaise \/ GlobalRngDraw

SpecSample == InitSample /\ [][NextSample]_vars

(***************************************************************************)
(* Claims about anonymize_and_filter_data (checked under SpecAnon).        *)
(***************************************************************************)
PaidSet == {"Fully Paid", "Does not meet the credit policy. Status:Fully Paid"}

DefaultSet == {"Charged Off", "Default", "Late (31-120 days)", "In Grace Period",
               "Does not meet the credit policy. Status:Charged Off", "Late (16-30 days)"}

LeakageColumns == {"last_pymnt_d", "total_pymnt", "recoveries", "collection_recovery_fee",
                   "last_credit_pull_d", "out_prncp", "out_prncp_inv", "total_pymnt_inv",
                   "total_rec_prncp", "total_rec_int", "total_rec_late_fee", "hardship_flag",
                   "settlement_status", "settlement_date", "settlement_amount",
                   "debt_settlement_flag"}

PrivacyColumns == {"member_id", "emp_title", "url", "desc", "title"}

Returned == pc = "returned"

\* C1: every record of the returned table has issue_d within
\* 2015-01-01..2020-12-31 (a parsed date whose year is 2015..2020) and a
\* loan_status of the Paid or the Default set.
C1_WindowAndStatus ==
    Returned =>
        \A i \in 1..Len(df_filtered.rows) :
            LET r == df_filtered.rows[i]
            IN /\ r["issue_d"].dtype = "datetime64"
               /\ r["issue_d"].year \in 2015..2020
               /\ r["issue_d"].month \in 1..12
               /\ r["loan_status"] \in PaidSet \cup DefaultSet

\* a table is returned that keeps a record dated on the last day of the
\* window and has lost at least one record of the input
C1_Witness ==
    /\ Returned
    /\ Len(df_filtered.rows) < Len(df_before.rows)
    /\ \E i \in 1..Len(df_filtered.rows) :
          df_filtered.rows[i]["issue_d"] = Timestamp(2020, 12, 31)

\* C2: the returned table has none of the 16 Leakage and none of the 5
\* Privacy columns, whichever of them the input has, and their absence
\* raises nothing: the call raises only when one of the two labels does not
\* occur among the surviving records.
C2_NoLeakNoPrivacy ==
    /\ Returned =>
          /\ df_filtered.columns \cap (LeakageColumns \cup PrivacyColumns) = {}
          /\ \A i \in 1..Len(df_filtered.rows) :
                DOMAIN df_filtered.rows[i] = df_filtered.columns
          /\ df_filtered.columns =
                (df_before.columns \ (LeakageColumns \cup PrivacyColumns))
                    \cup {"target_default"}
    /\ pc = "raised" =>
          LET kept == {i \in 1..Len(df_before.rows) :
                         /\ in_period(to_datetime(df_before.rows[i]["issue_d"]))
                         /\ df_before.rows[i]["loan_status"] \in PaidSet \cup DefaultSet}
          IN \/ \A i \in kept : df_before.rows[i]["loan_status"] \in PaidSet
             \/ \A i \in kept : df_before.rows[i]["loan_status"] \in DefaultSet

\* a table is returned for an input that had some but not all of the
\* columns to drop
C2_Witness ==
    /\ Returned
    /\ df_before.columns \cap LeakageColumns # {}
    /\ ~(LeakageColumns \subseteq df_before.columns)
    /\ df_before.columns \cap PrivacyColumns # {}
    /\ ~(PrivacyColumns \subseteq df_before.columns)

\* C3: in the returned table target_default is 1 exactly for the records
\* whose loan_status is in the Default set, and 0 for the others.
C3_TargetLabel ==
    Returned =>
        \A i \in 1..Len(df_filtered.rows) :
            LET r == df_filtered.rows[i]
            IN /\ r["target_default"] \in {0, 1}
               /\ r["target_default"] = 1 <=> r["loan_status"] \in DefaultSet

\* a table is returned with a record labelled 1 and a record labelled 0
C3_Witness ==
    /\ Returned
    /\ \E i, j \in 1..Len(df_filtered.rows) :
          /\ df_filtered.rows[i]["target_default"] = 1
          /\ df_filtered.rows[i]["loan_status"] = "In Grace Period"
          /\ df_filtered.rows[j]["target_default"] = 0

\* C7: after the call the caller's table has the columns and the values it
\* had before the call, the unparsed issue_d texts included.
C7_InputUnchanged ==
    pc \in {"returned", "raised"} => df = df_before

\* C10: for every input table with the issue_d and loan_status columns the
\* call returns a table and raises nothing.
C10_NeverRaises ==
    pc # "raised"

(***************************************************************************)
(* Claims about create_stratified_sample (checked under SpecSample).       *)
(***************************************************************************)
StratumOf(r) == <<r["issue_d"].year, r["target_default"]>>

StrataOf(t) == {StratumOf(t.rows[i]) : i \in 1..Len(t.rows)}

StratumCount(t, k) == Cardinality({i \in 1..Len(t.rows) : StratumOf(t.rows[i]) = k})

\* floor(target_size x share) of a stratum of the table passed in
FloorShare(t, k) == (target_size * StratumCount(t, k)) \div Len(t.rows)

ZeroShareStrata(t) == {k \in StrataOf(t) : FloorShare(t, k) = 0}

\* C4 as stated: the sample has at most target_size rows.
C4_AtMostTarget ==
    Returned => Len(df_sample.rows) <= target_size

\* C4 amended: the sample has at most target_size rows plus one row for every
\* stratum whose floor(target_size x share) is zero.
C4_AtMostTargetPlusForced ==
    Returned =>
        Len(df_sample.rows) <= target_size + Cardinality(ZeroShareStrata(sample_in))

\* a sample is returned that has more rows than target_size
C4_Witness ==
    /\ Returned
    /\ target_size > 0
    /\ Len(df_sample.rows) > target_size

\* C5: every non-empty (year, target_default) stratum of the table passed in
\* has a record in the sample, so the sample has at least as many rows as
\* there are strata.
C5_EveryStratumDrawn ==
    Returned =>
        /\ \A k \in StrataOf(sample_in) :
              \E i \in 1..Len(df_sample.rows) : StratumOf(df_sample.rows[i]) = k
        /\ Len(df_sample.rows) >= Cardinality(StrataOf(sample_in))

\* a sample is returned for a table with a stratum whose proportional share
\* floors to zero, next to a stratum whose share does not
C5_Witness ==
    /\ Returned
    /\ ZeroShareStrata(sample_in) # {}
    /\ ZeroShareStrata(sample_in) # StrataOf(sample_in)

\* C8: the calls with the same table, target_size and seed have the same
\* outcome: the same records in the same order.
C8_Deterministic ==
    \A i, j \in 1..Len(samples) : samples[i] = samples[j]

\* two calls have returned, each drawing a proper part of a stratum, and the
\* global generator was drawn from
C8_Witness ==
    /\ Len(samples) = 2
    /\ samples[2].error = NoError
    /\ np_random > 0
    /\ \E k \in StrataOf(sample_in) :
          /\ StratumCount(sample_in, k) > 1
          /\ Cardinality({i \in 1..Len(df_sample.rows) :
                             StratumOf(df_sample.rows[i]) = k}) = 1

\* C9 as stated: the sample has exactly the columns of the table passed in,
\* without the Stratum Key.
C9_SameColumns ==
    Returned => df_sample.columns = sample_in.columns \ {"strata"}

\* C9 amended: the sample has the columns of the table passed in and the
\* derived year column ano, without the Stratum Key; every record of the
\* sample is a record of the table passed in with its year added.
C9_ColumnsPlusYear ==
    Returned =>
        /\ df_sample.columns = (sample_in.columns \cup {"ano"}) \ {"strata"}
        /\ \A i \in 1..Len(df_sample.rows) :
              LET r == df_sample.rows[i]
              IN /\ DOMAIN r = df_sample.columns
                 /\ r["ano"] = r["issue_d"].year
                 /\ \E j \in 1..Len(sample_in.rows) :
                       \A c \in sample_in.columns \ {"strata", "ano"} :
                           r[c] = sample_in.rows[j][c]

\* a sample with records is returned for a table that had no year column
C9_Witness ==
    /\ Returned
    /\ "ano" \notin sample_in.columns
    /\ "ano" \in df_sample.columns
    /\ Len(df_sample.rows) >= 2

(***************************************************************************)
(* process_lending_club_pipeline: one action per step of the try block,    *)
(* the return, and the except clause.                                      *)
(***************************************************************************)
shape(t) == <<Len(t.rows), Cardinality(t.columns)>>

\* value_counts of the year column: the rows of each year that occurs
year_counts(t) ==
    {<<y, Cardinality({i \in 1..Len(t.rows) : t.rows[i]["ano"] = y})>> :
        y \in {t.rows[i]["ano"] : i \in 1..Len(t.rows)}}

\* the comparison table, its percentages kept as the year counts of the two
\* tables; both tables get (again) their year column
analyze_temporal_distribution(original, smp) ==
    LET o == add_ano(original)
        a == add_ano(smp)
    IN [df_original |-> o, df_sample |-> a,
        comparison |-> [original |-> year_counts(o), sample |-> year_counts(a)]]

\* save_sample_for_github: the info of the file written
save_sample_for_github(t) == [records |-> Len(t.rows)]

reraise_wrapped(e) == "RuntimeError"

\* except Exception as e: print(...); raise
reraise(e) == e

\* the tables a downloaded file can hold: the full set of source columns
SourceTables(n) ==
    {RawTable(BaseCols \cup future_leak_cols \cup privacy_cols, vals) : vals \in RowSeqs(n)}

Started(name, ok) == steps' = Append(steps, [name |-> name, ok |-> ok])

Init ==
    /\ pc = "download"
    /\ df = NoTable
    /\ df_before = NoTable
    /\ df_filtered = NoTable
    /\ sample_in = NoTable
    /\ df_sample = NoTable
    /\ exc = NoError
    /\ error = NoError
    /\ result = NoResult
    /\ target_size \in {1, MaxTarget}
    /\ random_state = 42
    /\ np_random = 0
    /\ samples = <<>>
    /\ steps = <<>>
    /\ locals = NoLocals

\* main_file = download_kaggle_dataset(dataset_id)
Download ==
    /\ pc = "download"
    /\ \/ /\ pc' = "load"
          /\ locals' = [locals EXCEPT !.main_file = "loan.csv.gz"]
          /\ Started("download", TRUE)
          /\ exc' = exc
       \/ /\ \E e \in {"ImportError", "Exception", "ConnectionError"} : exc' = e
          /\ pc' = "except"
          /\ Started("download", FALSE)
          /\ locals' = locals
    /\ UNCHANGED <<df, df_before, df_filtered, sample_in, df_sample, error, result,
                   target_size, random_state, np_random, samples>>

\* df = load_lending_club_data(main_file)
Load ==
    /\ pc = "load"
    /\ \/ /\ df' \in SourceTables(MaxRows)
          /\ pc' = "anonymize"
          /\ Started("load", TRUE)
          /\ exc' = exc
       \/ /\ \E e \in {"FileNotFoundError", "ParserError"} : exc' = e
          /\ pc' = "except"
          /\ Started("load", FALSE)
          /\ df' = df
    /\ UNCHANGED <<df_before, df_filtered, sample_in, df_sample, error, result,
                   target_size, random_state, np_random, samples, locals>>

\* df_filtered = anonymize_and_filter_data(df)
Anonymize ==
    /\ pc = "anonymize"
    /\ LET res == anonymize_and_filter_data(df)
       IN /\ df_before' = df
          /\ df' = res.df
          /\ df_filtered' = res.ret
          /\ IF res.error = NoError
             THEN pc' = "sample" /\ exc' = exc /\ Started("anonymize", TRUE)
             ELSE pc' = "except" /\ exc' = res.error /\ Started("anonymize", FALSE)
    /\ UNCHANGED <<sample_in, df_sample, error, result, target_size, random_state,
                   np_random, samples, locals>>

\* df_sample = create_stratified_sample(df_filtered, target_sample_size)
Sample ==
    /\ pc = "sample"
    /\ LET res == create_stratified_sample(df_filtered, target_size, random_state, np_random)
       IN /\ sample_in' = df_filtered
          /\ df_filtered' = res.df
          /\ df_sample' = res.ret
          /\ samples' = Append(samples, [error |-> res.error, table |-> res.ret])
          /\ IF res.error = NoError
             THEN pc' = "save" /\ exc' = exc /\ Started("sample", TRUE)
             ELSE pc' = "except" /\ exc' = res.error /\ Started("sample", FALSE)
    /\ UNCHANGED <<df, df_before, error, result, target_size, random_state,
                   np_random, locals>>

\* file_info = save_sample_for_github(df_sample)
Save ==
    /\ pc = "save"
    /\ \/ /\ locals' = [locals EXCEPT !.file_info = save_sample_for_github(df_sample)]
          /\ pc' = "analyze"
          /\ Started("save", TRUE)
          /\ exc' = exc
       \/ /\ exc' = "OSError"
          /\ pc' = "except"
          /\ Started("save", FALSE)
          /\ locals' = locals
    /\ UNCHANGED <<df, df_before, df_filtered, sample_in, df_sample, error, result,
                   target_size, random_state, np_random, samples>>

\* temporal_analysis = analyze_temporal_distribution(df_filtered, df_sample)
Analyze ==
    /\ pc = "analyze"
    /\ LET res == analyze_temporal_distribution(df_filtered, df_sample)
       IN /\ df_filtered' = res.df_original
          /\ df_sample' = res.df_sample
          /\ locals' = [locals EXCEPT !.temporal_analysis = res.comparison]
    /\ pc' = "report"
    /\ Started("analyze", TRUE)
    /\ UNCHANGED <<df, df_before, sample_in, exc, error, result, target_size,
                   random_state, np_random, samples>>

\* process_info = {...}; return df_sample, process_info
Return ==
    /\ pc = "report"
    /\ result' = [returned |-> TRUE,
                  sample |-> df_sample,
                  process_info |-> [original_shape |-> shape(df),
                                    filtered_shape |-> shape(df_filtered),
                                    sample_shape |-> shape(df_sample),
                                    file_info |-> locals.file_info,
                                    temporal_analysis |-> locals.temporal_analysis]]
    /\ pc' = "returned"
    /\ UNCHANGED <<df, df_before, df_filtered, sample_in, df_sample, exc, error,
                   target_size, random_state, np_random, samples, steps, locals>>

\* except Exception as e: print the error and raise it again
Except ==
    /\ pc = "except"
    /\ error' = reraise(exc)
    /\ pc' = "raised"
    /\ UNCHANGED <<df, df_before, df_filtered, sample_in, df_sample, exc, result,
                   target_size, random_state, np_random, samples, steps, locals>>

Next == Download \/ Load \/ Anonymize \/ Sample \/ Save \/ Analyze \/ Return \/ Except

Spec == Init /\ [][Next]_vars

(***************************************************************************)
(* Claim about process_lending_club_pipeline (checked under Spec).         *)
(***************************************************************************)
StepOrder == <<"download", "load", "anonymize", "sample", "save", "analyze">>

AllOk(n) == \A i \in 1..n : steps[i].ok

\* C6: the steps run in the order download, load, anonymize/filter, sample,
\* save, analyze; a step has started only if every earlier step succeeded;
\* after a failed step no step starts and the caller receives that step's
\* error and no result; a result is returned only with all six steps done.
C6_LinearAllOrNothing ==
    /\ Len(steps) <= Len(StepOrder)
    /\ \A i \in 1..Len(steps) : steps[i].name = StepOrder[i]
    /\ AllOk(Len(steps) - 1)
    /\ (Len(steps) > 0 /\ ~steps[Len(steps)].ok) =>
          /\ pc \in {"except", "raised"}
          /\ exc # NoError
          /\ ~result.returned
    /\ pc = "raised" =>
          /\ Len(steps) > 0
          /\ ~steps[Len(steps)].ok
          /\ error = exc
          /\ error # NoError
          /\ result = NoResult
    /\ pc = "returned" =>
          /\ Len(steps) = Len(StepOrder)
          /\ AllOk(Len(steps))
          /\ error = NoError
          /\ result.returned
          /\ result.sample = df_sample
          /\ result.process_info.sample_shape[1] = Len(df_sample.rows)
          /\ result.process_info.file_info.records = Len(df_sample.rows)
          /\ result.process_info.temporal_analysis # NoComparison
    /\ result.returned => pc = "returned"
    /\ error # NoError => pc = "raised"

\* the anonymize/filter step failed after two steps had succeeded: the caller
\* has its KeyError, no sampling was done and nothing was returned
C6_Witness ==
    /\ pc = "raised"
    /\ Len(steps) = 3
    /\ steps[3].name = "anonymize"
    /\ error = "KeyError"
    /\ samples = <<>>
====
